---- MODULE Spec2Model ----
(***************************************************************************)
(* Model of script.py, the MQL5 job monitor: one invocation fetches the    *)
(* RSS feed, derives the identifier of the newest entry, compares it with  *)
(* the identifier stored in last_seen.txt, sends one Telegram notification *)
(* when they differ and stores the new identifier when the notification    *)
(* succeeded.  The file last_seen.txt is the only state that survives an   *)
(* invocation; a behaviour of the model is a sequence of invocations.      *)
(*                                                                         *)
(* Text is modelled as a sequence of character codes, so that str.strip()  *)
(* and the "title|published" concatenation are computed, not assumed.      *)
(***************************************************************************)
EXTENDS Integers, Sequences, FiniteSets, TLC

(***************************************************************************)
(* Text                                                                    *)
(***************************************************************************)

\* A blank, removed by str.strip(); 1 and 2 are letters.
SP == 0

\* Carriage return and line feed: whitespace to str.strip(), and what the
\* text-mode read of read_last_seen translates.
CR == 4

LF == 5

\* str.isspace() of one character.
IsSpace(c) == c \in {SP, CR, LF}

\* The "|" that generate_job_id puts between title and published date.
BAR == 3

\* Code of the first digest: hashlib.md5(...).hexdigest() is modelled as one
\* token outside the alphabet, a different token for each different content
\* (the digest is taken to be collision free and is never whitespace).
MD5Base == 100

\* Python's None, and a key that a feed entry does not have.
None == <<-1>>

Missing == <<-2>>

\* The state of last_seen.txt when os.path.exists(LAST_FILE) is false.
NoFile == <<-3>>

\* str.strip(): leading and trailing whitespace removed.
RECURSIVE LStrip(_)
LStrip(s) == IF s # <<>> /\ IsSpace(Head(s)) THEN LStrip(Tail(s)) ELSE s

RECURSIVE RStrip(_)
RStrip(s) ==
    IF s # <<>> /\ IsSpace(s[Len(s)])
    THEN RStrip(SubSeq(s, 1, Len(s) - 1)) ELSE s

Strip(s) == RStrip(LStrip(s))

\* Python truthiness of a value that is None or a string: "not v".
Falsy(v) == v = None \/ v = <<>>

\* entry.get(key, default)
Get(entry, key, default) ==
    IF entry[key] = Missing THEN default ELSE entry[key]

\* An injective numbering of the texts over the alphabet 0..5.
RECURSIVE Enc(_)
Enc(s) == IF s = <<>> THEN 0 ELSE (Head(s) + 1) + 7 * Enc(Tail(s))

\* hashlib.md5(content.encode()).hexdigest()
Md5(content) == <<MD5Base + Enc(content)>>

\* A variant of generate_job_id below: the summary goes into the hash too.
generate_id_hashing_summary(entry) ==
    LET link == Strip(Get(entry, "link", <<>>))
    IN  IF ~Falsy(link)
        THEN link
        ELSE LET title == Strip(Get(entry, "title", <<>>))
                 published ==
                     Strip(Get(entry, "published", Get(entry, "pubDate", <<>>)))
             IN  Md5(title \o <<BAR>> \o published \o <<BAR>>
                     \o Strip(Get(entry, "summary", <<>>)))

\* generate_job_id(entry)
generate_job_id(entry) ==
    LET link == Strip(Get(entry, "link", <<>>))
    IN  IF ~Falsy(link)
        THEN link
        ELSE LET title == Strip(Get(entry, "title", <<>>))
                 published ==
                     Strip(Get(entry, "published", Get(entry, "pubDate", <<>>)))
             IN  Md5(title \o <<BAR>> \o published)

(***************************************************************************)
(* Inputs                                                                  *)
(***************************************************************************)

\* Largest number of entries of a fetched feed.
MaxEntries == 2

Entry(l, t, p, d, s) ==
    [link |-> l, title |-> t, published |-> p, pubDate |-> d, summary |-> s]

\* The entries a feed may hold: two links, a link with surrounding
\* whitespace and a summary, and entries without a usable link.
FeedEntries ==
    { Entry(<<1>>, <<1>>, <<2>>, Missing, Missing),
      Entry(<<SP, 1, SP>>, <<2>>, <<2>>, Missing, <<1, 2>>),
      Entry(<<2>>, <<1>>, <<2>>, Missing, Missing),
      Entry(Missing, <<1>>, <<2>>, Missing, Missing),
      Entry(<<SP>>, <<1, SP>>, Missing, <<2>>, <<1>>) }

RECURSIVE SeqsUpTo(_, _)
SeqsUpTo(S, n) ==
    IF n = 0 THEN {<<>>}
    ELSE LET shorter == SeqsUpTo(S, n - 1)
         IN  shorter \cup {Append(q, e) : q \in shorter, e \in S}

\* What feedparser.parse may return as feed.entries, newest first.
EntryLists == SeqsUpTo(FeedEntries, MaxEntries)

\* os.environ.get(...): unset, set to the empty string, or set.
EnvValues == {None, <<>>, <<1>>}

(***************************************************************************)
(* What the environment may answer                                         *)
(***************************************************************************)

\* requests.get(RSS_URL, ...) followed by feedparser.parse(response.content):
\* no response (connection error, timeout), a response with an HTTP error
\* status, whose body may hold anything, a body on which the parser raises,
\* or a body the parser accepts, well formed or not (bozo).  entries is what
\* feedparser makes of the body.
FetchResults ==
    [kind : {"conn_error", "timeout", "parse_exception"},
     entries : {<<>>}, bozo : {FALSE}]
    \cup [kind : {"http_error", "parsed"}, entries : EntryLists, bozo : BOOLEAN]

\* requests.post(url, ...): an exception of requests, an HTTP error status, a
\* body that is not JSON, or a JSON body whose "ok" is true, false or absent.
NotifyResponses ==
    {"conn_error", "timeout", "http_error", "not_json",
     "ok_false", "ok_missing", "ok_true"}

\* open(LAST_FILE, "r") and f.read(): they work or raise.
ReadResults == {"ok", "error"}

\* open(LAST_FILE, "w") and f.write(identifier): both work; open raises and
\* the file is as it was; or the write raises after open truncated the file.
WriteResults == {"ok", "open_error", "write_error"}

(***************************************************************************)
(* The helpers of script.py                                                *)
(***************************************************************************)

\* Variants of fetch_rss_feed below: without response.raise_for_status(), the
\* body of an error response is parsed like any other; and a malformed feed
\* is treated as a feed without entries.
fetch_without_status_check(result) ==
    IF result.kind \in {"parsed", "http_error"} /\ result.entries # <<>>
    THEN [isNone |-> FALSE, entries |-> result.entries]
    ELSE [isNone |-> TRUE, entries |-> <<>>]

fetch_rejecting_bozo(result) ==
    IF result.kind = "parsed" /\ result.entries # <<>> /\ ~result.bozo
    THEN [isNone |-> FALSE, entries |-> result.entries]
    ELSE [isNone |-> TRUE, entries |-> <<>>]

\* fetch_rss_feed(): the entries of the feed, or None on an exception and on
\* a feed without entries.  A malformed feed (bozo) is only logged as a
\* warning: the entries the parser recovered are returned like any others.
fetch_rss_feed(result) ==
    IF result.kind = "parsed" /\ result.entries # <<>>
    THEN [isNone |-> FALSE, entries |-> result.entries]
    ELSE [isNone |-> TRUE, entries |-> <<>>]

\* main: "if not feed or not feed.entries"
NoEntriesToProcess(f) == f.isNone \/ f.entries = <<>>

\* f.read() of a file opened in text mode with the default newline=None:
\* "\r\n" and "\r" arrive as "\n".  (f.write of write_last_seen, on a system
\* whose line separator is "\n", stores the characters as they are.)
RECURSIVE UniversalNewlines(_)
UniversalNewlines(s) ==
    IF s = <<>> THEN <<>>
    ELSE IF Head(s) = CR
         THEN <<LF>> \o UniversalNewlines(
                  IF Len(s) > 1 /\ s[2] = LF THEN Tail(Tail(s)) ELSE Tail(s))
         ELSE <<Head(s)>> \o UniversalNewlines(Tail(s))

\* A variant of read_last_seen below: a read that raises yields the empty
\* string instead of None.
read_empty_on_error(f, result) ==
    IF f = NoFile THEN None
    ELSE IF result = "ok" THEN Strip(UniversalNewlines(f)) ELSE <<>>

\* read_last_seen(): None when the file does not exist or reading raises.
read_last_seen(f, result) ==
    IF f = NoFile THEN None
    ELSE IF result = "ok" THEN Strip(UniversalNewlines(f)) ELSE None

\* A variant of write_last_seen below: the identifier reaches the file
\* before the write raises.
write_flushed_before_error(f, identifier, result) ==
    CASE result = "ok" -> identifier
      [] result = "open_error" -> f
      [] result = "write_error" -> identifier

\* write_last_seen(identifier): the content of the file afterwards; every
\* exception is caught and logged.
write_last_seen(f, identifier, result) ==
    CASE result = "ok" -> identifier
      [] result = "open_error" -> f
      [] result = "write_error" -> <<>>

\* A variant of send_telegram_message below: any JSON answer counts as
\* success, its "ok" field is not looked at.
send_without_ok_check(token, chat, response) ==
    IF Falsy(token) \/ Falsy(chat) THEN FALSE
    ELSE response \in {"ok_true", "ok_false", "ok_missing"}

\* send_telegram_message(text): True only for a JSON answer with a true "ok".
send_telegram_message(token, chat, response) ==
    IF Falsy(token) \/ Falsy(chat) THEN FALSE ELSE response = "ok_true"

\* send_telegram_message issues the POST unless a credential is missing.
PostIssued(token, chat) == ~(Falsy(token) \/ Falsy(chat))

\* A variant of the checks below: only the token is checked.
MissingTokenOnly(token, chat) == Falsy(token)

\* main: the two credential checks that end in sys.exit(1).
MissingCredential(token, chat) == Falsy(token) \/ Falsy(chat)

\* A variant of the test below: only an empty stored value counts as a
\* first run.
IsFirstRunEmptyOnly(last) == last = <<>>

\* main: "if last_seen_id is None"
IsFirstRun(last) == last = None

\* A variant of the comparison below: every run with a stored identifier
\* counts as a change.
NewJobAlways(cur, last) == TRUE

\* main: "if current_job_id != last_seen_id"
NewJobDetected(cur, last) == cur # last

\* A variant of the guard below: the identifier is stored whatever the
\* notification returned.
UpdateAlways(ok) == TRUE

\* main: "if send_telegram_message(message)" guards write_last_seen.
UpdateAfterNotify(ok) == ok

(***************************************************************************)
(* State                                                                   *)
(***************************************************************************)

VARIABLES
    pc,              \* where the invocation is, or how it ended
    BOT_TOKEN,       \* the environment of the running process
    CHAT_ID,
    file,            \* the content of last_seen.txt, or NoFile
    latest_entry,    \* main's local variable (feed.entries[0])
    current_job_id,  \* main's local variable
    last_seen_id,    \* main's local variable
    sent,            \* what send_telegram_message returned: "unset", "True", "False"
    ops,             \* history: the effectful operations of this invocation
    how,             \* history: what the environment answered in this invocation
    file0,           \* history: the content of last_seen.txt when the invocation began
    prev,            \* history: how the previous invocation went
    storedBy,        \* history: which path of main stored the present content
    notifiedOk,      \* history: identifiers whose notification reported success
    calc             \* the helpers applied on their own: inputs and results

vars ==
    <<pc, BOT_TOKEN, CHAT_ID, file, latest_entry, current_job_id, last_seen_id,
      sent, ops, how, file0, prev, storedBy, notifiedOk, calc>>

Running == {"validate", "fetch", "read", "notify", "write"}

Ended == {"returned", "exit1", "interrupted", "crashed"}

\* A variant of ExitStatus below: the top-level handler of unexpected
\* exceptions ends the process with status 0.
ExitStatusZeroOnError ==
    CASE pc \in {"returned", "interrupted", "crashed"} -> 0
      [] pc = "exit1" -> 1
      [] OTHER -> -1

\* The exit status of the process: 0 when main returns and on
\* KeyboardInterrupt (sys.exit(0)), 1 on a missing credential (sys.exit(1) in
\* main) and on any other exception (sys.exit(1) in the top-level handler);
\* -1 stands for a process that has not ended.
ExitStatus ==
    CASE pc \in {"returned", "interrupted"} -> 0
      [] pc \in {"exit1", "crashed"} -> 1
      [] OTHER -> -1

NoEntry == Entry(Missing, Missing, Missing, Missing, Missing)

NoAnswers ==
    [fetch |-> "none", bozo |-> FALSE, entries |-> FALSE, more |-> FALSE,
     read |-> "none", notify |-> "none", write |-> "none"]

NoPrev == [pc |-> "none", entry |-> NoEntry, sent |-> "unset", write |-> "none"]

\* No helper is applied on its own while the program runs.
NoCalc ==
    [step |-> "off", a |-> NoEntry, b |-> NoEntry, idA |-> None, idB |-> None,
     back |-> None]

Init ==
    /\ pc = "idle"
    /\ BOT_TOKEN = None
    /\ CHAT_ID = None
    /\ file = NoFile
    /\ latest_entry = NoEntry
    /\ current_job_id = None
    /\ last_seen_id = None
    /\ sent = "unset"
    /\ ops = <<>>
    /\ how = NoAnswers
    /\ file0 = NoFile
    /\ prev = NoPrev
    /\ storedBy = "nothing"
    /\ notifiedOk = {}
    /\ calc = NoCalc

(***************************************************************************)
(* One invocation, step by step                                            *)
(***************************************************************************)

\* The scheduler starts the program; the module reads the two credentials
\* from the environment (lines 18-19).
StartRun ==
    /\ UNCHANGED calc
    /\ pc \in Ended \cup {"idle"}
    /\ \E token \in EnvValues, chat \in EnvValues :
          /\ BOT_TOKEN' = token
          /\ CHAT_ID' = chat
    /\ pc' = "validate"
    /\ prev' = IF pc = "idle" THEN NoPrev
               ELSE [pc |-> pc, entry |-> latest_entry, sent |-> sent,
                     write |-> how.write]
    /\ latest_entry' = NoEntry
    /\ current_job_id' = None
    /\ last_seen_id' = None
    /\ sent' = "unset"
    /\ ops' = <<>>
    /\ how' = NoAnswers
    /\ file0' = file
    /\ UNCHANGED <<file, storedBy, notifiedOk>>

\* main, lines 160-167: a missing credential ends the process with status 1.
Validate ==
    /\ UNCHANGED calc
    /\ pc = "validate"
    /\ pc' = IF MissingCredential(BOT_TOKEN, CHAT_ID) THEN "exit1" ELSE "fetch"
    /\ UNCHANGED <<BOT_TOKEN, CHAT_ID, file, latest_entry, current_job_id,
                   last_seen_id, sent, ops, how, file0, prev, storedBy,
                   notifiedOk>>

\* Behind the first entry the feed holds an entry that is new as well: its
\* identifier is neither the first entry's, nor the stored one, nor one
\* already notified.  main looks at feed.entries[0] only (line 175).
FurtherNewEntry(entries, stored, notified) ==
    \E i \in 2..Len(entries) :
       generate_job_id(entries[i])
          \notin ({generate_job_id(entries[1]), stored} \cup notified)

\* main, lines 169-181, with fetch_rss_feed and generate_job_id: the feed is
\* fetched and the identifier of its first entry derived.
Fetch ==
    /\ UNCHANGED calc
    /\ pc = "fetch"
    /\ \E result \in FetchResults :
          LET feed == fetch_rss_feed(result)
          IN  /\ how' = [how EXCEPT !.fetch = result.kind, !.bozo = result.bozo,
                                    !.entries = result.entries # <<>>,
                                    !.more = /\ ~NoEntriesToProcess(feed)
                                             /\ FurtherNewEntry(feed.entries,
                                                                file, notifiedOk)]
              /\ IF NoEntriesToProcess(feed)
                 THEN /\ pc' = "returned"
                      /\ UNCHANGED <<latest_entry, current_job_id>>
                 ELSE /\ latest_entry' = feed.entries[1]
                      /\ current_job_id' = generate_job_id(feed.entries[1])
                      /\ pc' = IF Falsy(current_job_id') THEN "returned" ELSE "read"
    /\ ops' = Append(ops, "fetch")
    /\ UNCHANGED <<BOT_TOKEN, CHAT_ID, file, last_seen_id, sent, file0, prev,
                   storedBy, notifiedOk>>

\* main, lines 183-206 up to the branch taken, with read_last_seen.
Read ==
    /\ UNCHANGED calc
    /\ pc = "read"
    /\ \E result \in ReadResults :
          /\ last_seen_id' = read_last_seen(file, result)
          /\ how' = [how EXCEPT !.read = IF file = NoFile THEN "absent" ELSE result]
    /\ ops' = Append(ops, "read")
    /\ pc' = CASE IsFirstRun(last_seen_id') -> "write"
               [] ~IsFirstRun(last_seen_id')
                    /\ NewJobDetected(current_job_id, last_seen_id') -> "notify"
               [] OTHER -> "returned"
    /\ UNCHANGED <<BOT_TOKEN, CHAT_ID, file, latest_entry, current_job_id, sent,
                   file0, prev, storedBy, notifiedOk>>

\* main, lines 196-204, with format_job_message and send_telegram_message.
Notify ==
    /\ UNCHANGED calc
    /\ pc = "notify"
    /\ \E response \in NotifyResponses :
          /\ sent' = IF send_telegram_message(BOT_TOKEN, CHAT_ID, response)
                     THEN "True" ELSE "False"
          /\ how' = [how EXCEPT !.notify = response]
    /\ ops' = IF PostIssued(BOT_TOKEN, CHAT_ID) THEN Append(ops, "notify") ELSE ops
    /\ notifiedOk' = IF sent' = "True"
                     THEN notifiedOk \cup {current_job_id} ELSE notifiedOk
    /\ pc' = IF UpdateAfterNotify(sent' = "True") THEN "write" ELSE "returned"
    /\ UNCHANGED <<BOT_TOKEN, CHAT_ID, file, latest_entry, current_job_id,
                   last_seen_id, file0, prev, storedBy>>

\* The path of main that calls write_last_seen.
WritePath ==
    CASE how.read = "absent" -> "first_run"
      [] how.read = "error" -> "read_error"
      [] OTHER -> "after_notify"

\* A variant of Write below: without the return of line 190, a first run
\* goes on to the comparison of line 193 after storing the identifier.
WriteWithoutReturn ==
    /\ UNCHANGED calc
    /\ pc = "write"
    /\ \E result \in WriteResults :
          /\ file' = write_last_seen(file, current_job_id, result)
          /\ how' = [how EXCEPT !.write = result]
          /\ storedBy' = CASE result = "ok" -> WritePath
                           [] result = "open_error" -> storedBy
                           [] result = "write_error" -> "truncated"
    /\ ops' = Append(ops, "write")
    /\ pc' = IF sent = "unset" /\ NewJobDetected(current_job_id, last_seen_id)
             THEN "notify" ELSE "returned"
    /\ UNCHANGED <<BOT_TOKEN, CHAT_ID, latest_entry, current_job_id,
                   last_seen_id, sent, file0, prev, notifiedOk>>

\* write_last_seen(current_job_id), called on line 188 or on line 201; main
\* returns after it.
Write ==
    /\ UNCHANGED calc
    /\ pc = "write"
    /\ \E result \in WriteResults :
          /\ file' = write_last_seen(file, current_job_id, result)
          /\ how' = [how EXCEPT !.write = result]
          /\ storedBy' = CASE result = "ok" -> WritePath
                           [] result = "open_error" -> storedBy
                           [] result = "write_error" -> "truncated"
    /\ ops' = Append(ops, "write")
    /\ pc' = "returned"
    /\ UNCHANGED <<BOT_TOKEN, CHAT_ID, latest_entry, current_job_id,
                   last_seen_id, sent, file0, prev, notifiedOk>>

\* KeyboardInterrupt, lines 211-213: the process ends with status 0 wherever
\* it is.  During the POST the request may or may not have left; during
\* write_last_seen the file is as it was, truncated, or written.
Interrupt ==
    /\ UNCHANGED calc
    /\ pc \in Running
    /\ pc' = "interrupted"
    /\ IF pc = "write"
       THEN \E after \in {file, <<>>, current_job_id} :
               /\ file' = after
               /\ ops' = IF after = file THEN ops ELSE Append(ops, "write")
               /\ storedBy' = CASE after = file -> storedBy
                                [] after # file /\ after = <<>> -> "truncated"
                                [] OTHER -> WritePath
       ELSE /\ \E issued \in BOOLEAN :
                  ops' = IF pc = "notify" /\ issued
                         THEN Append(ops, "notify") ELSE ops
            /\ UNCHANGED <<file, storedBy>>
    /\ UNCHANGED <<BOT_TOKEN, CHAT_ID, latest_entry, current_job_id,
                   last_seen_id, sent, how, file0, prev, notifiedOk>>

\* An exception nothing in main expects (a log_message whose print raises, a
\* feed entry whose field is no string) reaches the handler of lines 214-216:
\* the process ends with status 1 wherever it is.  What the step under way
\* had done by then stays done, as for Interrupt.
Crash ==
    /\ UNCHANGED calc
    /\ pc \in Running
    /\ pc' = "crashed"
    /\ IF pc = "write"
       THEN \E after \in {file, <<>>, current_job_id} :
               /\ file' = after
               /\ ops' = IF after = file THEN ops ELSE Append(ops, "write")
               /\ storedBy' = CASE after = file -> storedBy
                                [] after # file /\ after = <<>> -> "truncated"
                                [] OTHER -> WritePath
       ELSE /\ \E issued \in BOOLEAN :
                  ops' = IF pc = "notify" /\ issued
                         THEN Append(ops, "notify") ELSE ops
            /\ UNCHANGED <<file, storedBy>>
    /\ UNCHANGED <<BOT_TOKEN, CHAT_ID, latest_entry, current_job_id,
                   last_seen_id, sent, how, file0, prev, notifiedOk>>

Next ==
    \/ StartRun
    \/ Validate
    \/ Fetch
    \/ Read
    \/ Notify
    \/ Write
    \/ Interrupt
    \/ Crash

Spec == Init /\ [][Next]_vars

(***************************************************************************)
(* The helpers on their own: generate_job_id applied to two entries, and   *)
(* the identifier of the first written by write_last_seen and read back by *)
(* read_last_seen.                                                         *)
(***************************************************************************)

\* The entries the helpers are applied to: every combination of a link, a
\* title, the two date keys and a summary, present or not, with and without
\* surrounding whitespace, and a link with a carriage return inside.
IdEntries ==
    { Entry(l, t, p, d, m) :
        l \in {Missing, <<SP>>, <<1>>, <<SP, 1, LF>>, <<1, CR, 2>>, <<2>>},
        t \in {Missing, <<1>>, <<SP, 1>>},
        p \in {Missing, <<2>>},
        d \in {Missing, <<1>>, <<2, SP>>},
        m \in {Missing, <<1>>} }

IdInit ==
    /\ pc = "idle"
    /\ BOT_TOKEN = None
    /\ CHAT_ID = None
    /\ file = NoFile
    /\ latest_entry = NoEntry
    /\ current_job_id = None
    /\ last_seen_id = None
    /\ sent = "unset"
    /\ ops = <<>>
    /\ how = NoAnswers
    /\ file0 = NoFile
    /\ prev = NoPrev
    /\ storedBy = "nothing"
    /\ notifiedOk = {}
    /\ \E a \in IdEntries, b \in IdEntries :
          calc = [NoCalc EXCEPT !.step = "input", !.a = a, !.b = b]

program == <<pc, BOT_TOKEN, CHAT_ID, latest_entry, current_job_id, last_seen_id,
             sent, ops, how, file0, prev, storedBy, notifiedOk>>

\* generate_job_id(a), generate_job_id(b)
DeriveIds ==
    /\ calc.step = "input"
    /\ calc' = [calc EXCEPT !.step = "derived",
                            !.idA = generate_job_id(calc.a),
                            !.idB = generate_job_id(calc.b)]
    /\ UNCHANGED <<file, program>>

\* write_last_seen(generate_job_id(a)), the write working
StoreId ==
    /\ calc.step = "derived"
    /\ file' = write_last_seen(file, calc.idA, "ok")
    /\ calc' = [calc EXCEPT !.step = "stored"]
    /\ UNCHANGED program

\* read_last_seen(), the read working
LoadId ==
    /\ calc.step = "stored"
    /\ calc' = [calc EXCEPT !.step = "loaded", !.back = read_last_seen(file, "ok")]
    /\ UNCHANGED <<file, program>>

IdNext ==
    \/ DeriveIds
    \/ StoreId
    \/ LoadId

IdSpec == IdInit /\ [][IdNext]_vars

(***************************************************************************)
(* Properties                                                              *)
(***************************************************************************)

\* How often the invocation did op so far.
RECURSIVE CountIn(_, _)
CountIn(q, op) ==
    IF q = <<>> THEN 0
    ELSE (IF Head(q) = op THEN 1 ELSE 0) + CountIn(Tail(q), op)

Count(op) == CountIn(ops, op)

WriteFailed(w) == w \in {"open_error", "write_error"}

\* C1: in a run that returns after loading a stored identifier A and finding
\* the newest identifier B different from it, exactly one notification attempt
\* was made, and the file holds B only if that attempt reported success.
C1_OneAttemptPerTransition ==
    (pc = "returned" /\ last_seen_id # None /\ current_job_id # None
        /\ current_job_id # last_seen_id)
    => /\ Count("notify") = 1
       /\ (file = current_job_id => sent = "True")

C1_Witness ==
    /\ pc = "returned"
    /\ last_seen_id = <<1>>
    /\ current_job_id = <<2>>
    /\ Count("notify") = 1
    /\ sent = "True"
    /\ file = <<2>>

C1_WitnessFailed ==
    /\ pc = "returned"
    /\ last_seen_id = <<1>>
    /\ current_job_id = <<2>>
    /\ sent = "False"
    /\ file = <<1>>

\* C2, as claimed: a run whose notification attempt failed leaves the file as
\* it was, and the next run, when its newest entry is the same, makes a
\* notification attempt.
C2_RetryOnFailure ==
    /\ (pc = "returned" /\ sent = "False") => file = file0
    /\ (pc = "returned" /\ prev.pc = "returned" /\ prev.sent = "False"
           /\ latest_entry = prev.entry)
       => Count("notify") = 1

\* C2, amended: a run whose notification attempt failed leaves the file as it
\* was, and the next run, when its newest entry is the same and it reads the
\* stored identifier, makes exactly one notification attempt.
C2_RetryOnFailureWhenRead ==
    /\ (pc = "returned" /\ sent = "False") => file = file0
    /\ (pc = "returned" /\ prev.pc = "returned" /\ prev.sent = "False"
           /\ latest_entry = prev.entry /\ how.read = "ok")
       => Count("notify") = 1

C2_Witness ==
    /\ pc = "returned"
    /\ prev.pc = "returned"
    /\ prev.sent = "False"
    /\ latest_entry = prev.entry
    /\ how.read = "ok"
    /\ Count("notify") = 1
    /\ file0 = <<1>>
    /\ current_job_id = <<2>>

\* C3, as claimed: a run that finds no stored file and a feed with an entry
\* makes no notification attempt and leaves the newest identifier in the file.
C3_FirstRun ==
    (pc = "returned" /\ file0 = NoFile /\ current_job_id # None)
    => /\ Count("notify") = 0
       /\ file = current_job_id

\* C3, amended: such a run makes no notification attempt and calls
\* write_last_seen once with the newest identifier; the file holds it when the
\* write succeeds, and no identifier (absent or empty) when the write fails.
C3_FirstRunUnlessWriteFails ==
    (pc = "returned" /\ file0 = NoFile /\ current_job_id # None)
    => /\ Count("notify") = 0
       /\ Count("write") = 1
       /\ how.write = "ok" => file = current_job_id
       /\ WriteFailed(how.write) => file \in {NoFile, <<>>}

C3_Witness ==
    /\ pc = "returned"
    /\ file0 = NoFile
    /\ current_job_id = generate_job_id(latest_entry)
    /\ latest_entry.link = Missing
    /\ file = current_job_id
    /\ Count("notify") = 0

C3_WitnessWriteFailed ==
    /\ pc = "returned"
    /\ file0 = NoFile
    /\ current_job_id # None
    /\ how.write = "write_error"
    /\ file = <<>>

\* C4, as claimed: the second of two runs in succession that see the same
\* newest entry makes no notification attempt and leaves the file as it was.
C4_Idempotence ==
    (pc = "returned" /\ prev.pc = "returned" /\ current_job_id # None
        /\ latest_entry = prev.entry)
    => /\ Count("notify") = 0
       /\ file = file0

\* C4, amended: when the first of the two runs left the newest identifier in
\* the file, the second makes no notification attempt and, when it reads the
\* stored identifier, does not write the file.
C4_IdempotenceOncePersisted ==
    (pc = "returned" /\ prev.pc = "returned" /\ current_job_id # None
        /\ latest_entry = prev.entry /\ file0 = current_job_id)
    => /\ Count("notify") = 0
       /\ how.read = "ok" => (Count("write") = 0 /\ file = file0)

C4_Witness ==
    /\ pc = "returned"
    /\ prev.pc = "returned"
    /\ prev.sent = "True"
    /\ prev.write = "ok"
    /\ latest_entry = prev.entry
    /\ file0 = current_job_id
    /\ how.read = "ok"
    /\ ops = <<"fetch", "read">>

\* C5, as claimed: an identifier held by the file was stored by a run that
\* found no file, or is the identifier of an entry whose notification reported
\* success.  (An empty file holds no identifier and is not counted against
\* the claim.)
C5_StoredIsFirstOrNotified ==
    file \notin {NoFile, <<>>} => (storedBy = "first_run" \/ file \in notifiedOk)

\* C5, amended: the file is absent, or empty (a write that stopped after the
\* file was truncated), or holds an identifier stored without a notification
\* by a run that found no file or could not read it, or the identifier of an
\* entry whose notification reported success.
C5_StoredIsInitialOrNotified ==
    \/ file = NoFile
    \/ file = <<>>
    \/ storedBy \in {"first_run", "read_error"}
    \/ file \in notifiedOk

C5_Witness ==
    /\ pc = "returned"
    /\ storedBy = "after_notify"
    /\ file = current_job_id
    /\ file \in notifiedOk
    /\ file0 # NoFile
    /\ file0 # file

C5_WitnessReadError ==
    /\ pc = "returned"
    /\ storedBy = "read_error"
    /\ file = current_job_id
    /\ file \notin notifiedOk

\* C6: when a credential is absent, the run gets no further than the check:
\* it ends with status 1 (unless it is interrupted or fails unexpectedly
\* before that), having fetched nothing,
\* attempted no notification, and neither read nor written the file.
C6_MissingCredentialIsFatal ==
    (pc # "idle" /\ (BOT_TOKEN = None \/ CHAT_ID = None))
    => /\ pc \in {"validate", "exit1", "interrupted", "crashed"}
       /\ ops = <<>>
       /\ file = file0

C6_Witness ==
    /\ pc = "exit1"
    /\ BOT_TOKEN # None
    /\ CHAT_ID = None
    /\ file0 # NoFile
    /\ ops = <<>>

\* The fetch of this run failed: no response, an HTTP error status, an
\* exception while parsing, or a feed without entries.
FetchFailed ==
    \/ how.fetch \in {"conn_error", "timeout", "http_error", "parse_exception"}
    \/ (how.fetch = "parsed" /\ ~how.entries)

\* C7: a run whose fetch failed has returned after the fetch: no read, no
\* notification attempt, no write, and the file as it was.
C7_FetchFailureChangesNothing ==
    FetchFailed
    => /\ pc = "returned"
       /\ ops = <<"fetch">>
       /\ file = file0

C7_Witness ==
    /\ pc = "returned"
    /\ how.fetch = "http_error"
    /\ how.entries
    /\ file0 = <<1>>
    /\ file = <<1>>
    /\ ops = <<"fetch">>

C7_WitnessNoEntries ==
    /\ pc = "returned"
    /\ how.fetch = "parsed"
    /\ ~how.entries
    /\ file0 = <<1>>

C8_WitnessEmpty ==
    /\ pc = "returned"
    /\ how.fetch = "parsed"
    /\ how.bozo
    /\ ~how.entries
    /\ file0 = <<1>>

\* C9: whatever way the notification fails, send_telegram_message returns
\* False, main returns normally, and the file is neither written nor changed.
C9_NotifyFailureKeepsState ==
    how.notify \in (NotifyResponses \ {"ok_true"})
    => /\ pc = "returned"
       /\ sent = "False"
       /\ Count("write") = 0
       /\ file = file0

C9_Witness ==
    /\ pc = "returned"
    /\ how.notify = "ok_missing"
    /\ sent = "False"
    /\ file0 = <<1>>
    /\ file = <<1>>
    /\ current_job_id = <<2>>

\* C10, as claimed: when the write after a successful notification fails, the
\* run returns normally with the file as it was, and the next run, seeing the
\* same newest entry, makes a notification attempt for it.
C10_WriteFailureDuplicates ==
    /\ (sent = "True" /\ WriteFailed(how.write))
       => (pc = "returned" /\ file = file0)
    /\ (pc = "returned" /\ prev.pc = "returned" /\ prev.sent = "True"
           /\ WriteFailed(prev.write) /\ latest_entry = prev.entry)
       => Count("notify") = 1

\* C10, amended: such a run returns normally with the file as it was or
\* emptied (the write raised after open truncated the file), in no case
\* holding the new identifier; and the next run, seeing the same newest entry
\* and reading the file, makes exactly one notification attempt for it.
C10_WriteFailureKeepsOrEmpties ==
    /\ (sent = "True" /\ WriteFailed(how.write))
       => /\ pc = "returned"
          /\ file \in {file0, <<>>}
          /\ file # current_job_id
          /\ how.write = "open_error" => file = file0
    /\ (pc = "returned" /\ prev.pc = "returned" /\ prev.sent = "True"
           /\ WriteFailed(prev.write) /\ latest_entry = prev.entry
           /\ how.read = "ok")
       => Count("notify") = 1

C10_Witness ==
    /\ pc = "returned"
    /\ prev.pc = "returned"
    /\ prev.sent = "True"
    /\ prev.write = "write_error"
    /\ latest_entry = prev.entry
    /\ how.read = "ok"
    /\ file0 = <<>>
    /\ Count("notify") = 1

C10_WitnessTruncated ==
    /\ pc = "returned"
    /\ sent = "True"
    /\ how.write = "write_error"
    /\ file0 = <<1>>
    /\ file = <<>>

\* C11, as claimed: a run whose read of an existing file raises makes no
\* notification attempt and leaves the newest identifier in the file.
C11_ReadFailureOverwrites ==
    (pc = "returned" /\ how.read = "error")
    => /\ last_seen_id = None
       /\ Count("notify") = 0
       /\ file = current_job_id

\* C11, amended: such a run treats the file as absent: it makes no
\* notification attempt and calls write_last_seen once with the newest
\* identifier, which replaces the stored value when the write succeeds; when
\* the write fails the file keeps its content or is left empty.
C11_ReadFailureIsFirstRun ==
    (pc = "returned" /\ how.read = "error")
    => /\ last_seen_id = None
       /\ Count("notify") = 0
       /\ Count("write") = 1
       /\ how.write = "ok" => file = current_job_id
       /\ how.write = "open_error" => file = file0
       /\ how.write = "write_error" => file = <<>>

C11_Witness ==
    /\ pc = "returned"
    /\ how.read = "error"
    /\ file0 = <<1>>
    /\ current_job_id = <<2>>
    /\ file = <<2>>
    /\ ops = <<"fetch", "read", "write">>

\* The entry has a link: the key is there and holds more than whitespace.
HasLink(e) == e.link # Missing /\ \E i \in 1..Len(e.link) : ~IsSpace(e.link[i])

\* The published date of an entry: its "published" key, else its "pubDate".
DateOf(e) == IF e.published # Missing THEN e.published ELSE e.pubDate

\* C12: two entries with the same link have the same identifier, whatever
\* their titles, dates and summaries; two entries without a link, with the
\* same title and the same published date, have the same identifier, whatever
\* their summaries.
C12_IdentifierStability ==
    calc.step \in {"derived", "stored", "loaded"}
    => /\ (HasLink(calc.a) /\ calc.a.link = calc.b.link) => calc.idA = calc.idB
       /\ (~HasLink(calc.a) /\ ~HasLink(calc.b) /\ calc.a.title = calc.b.title
              /\ DateOf(calc.a) = DateOf(calc.b))
          => calc.idA = calc.idB

C12_Witness ==
    /\ calc.step = "derived"
    /\ ~HasLink(calc.a)
    /\ ~HasLink(calc.b)
    /\ calc.a.link # calc.b.link
    /\ calc.a.title = <<1>>
    /\ calc.b.title = <<1>>
    /\ calc.a.published = <<2>>
    /\ calc.b.published = <<2>>
    /\ calc.a.pubDate # calc.b.pubDate
    /\ calc.a.summary # calc.b.summary
    /\ calc.idA = calc.idB

C12_WitnessLink ==
    /\ calc.step = "derived"
    /\ calc.a.link = <<SP, 1, LF>>
    /\ calc.b.link = <<SP, 1, LF>>
    /\ calc.a.title # calc.b.title
    /\ calc.a.published # calc.b.published
    /\ calc.a.summary # calc.b.summary
    /\ calc.idA = <<1>>
    /\ calc.idB = <<1>>

\* C13: a run that notified and stored, a first run and a run that found
\* nothing changed have returned from main and end with status 0; a run with
\* a missing credential that got past the check of it ended with status 1;
\* an unexpected exception ends the process with status 1.
C13_ExitStatus ==
    /\ (sent = "True" /\ how.write = "ok") => (pc = "returned" /\ ExitStatus = 0)
    /\ (how.read = "absent" /\ how.write # "none")
       => (pc = "returned" /\ ExitStatus = 0)
    /\ (how.read = "ok" /\ last_seen_id = current_job_id)
       => (pc = "returned" /\ ExitStatus = 0)
    /\ (pc \notin {"idle", "validate", "interrupted", "crashed"}
           /\ (Falsy(BOT_TOKEN) \/ Falsy(CHAT_ID)))
       => (pc = "exit1" /\ ExitStatus = 1)
    /\ pc = "crashed" => ExitStatus = 1
    /\ pc = "returned" => ExitStatus = 0

C13_Witness ==
    /\ pc = "crashed"
    /\ ExitStatus = 1
    /\ sent = "True"
    /\ file = <<>>
    /\ file0 = <<1>>

C13_WitnessNotified ==
    /\ pc = "returned"
    /\ ExitStatus = 0
    /\ sent = "True"
    /\ how.write = "ok"

\* C14: in every run the feed is fetched at most once and before anything
\* else, a notification is attempted at most once, and the file is written at
\* most once, as the last operation of the run: neither a fetch nor a
\* notification attempt follows a write.
C14_StepsInOrder ==
    /\ Count("fetch") <= 1
    /\ Count("notify") <= 1
    /\ Count("write") <= 1
    /\ \A i \in 1..Len(ops) :
          /\ ops[i] = "fetch" => i = 1
          /\ ops[i] = "write" => i = Len(ops)
    /\ pc \in {"read", "notify", "write"} => Count("fetch") = 1

C14_Witness ==
    /\ pc = "returned"
    /\ ops = <<"fetch", "read", "notify", "write">>
    /\ file = current_job_id

\* C15: after an interrupted run the file holds what it held when the run
\* began or the identifier of the newest entry.
C15_InterruptKeepsState ==
    pc = "interrupted" => file \in {file0, current_job_id}

\* C16: in a run where the stored identifier was read and equals the
\* identifier of the newest entry, no notification attempt is made and the
\* file is not written: it stays as it was when the run began.
C16_SameIdentifierNoEffect ==
    (/\ pc \in {"notify", "write", "returned"}
     /\ last_seen_id # None
     /\ last_seen_id = current_job_id)
    => /\ pc = "returned"
       /\ Count("notify") = 0
       /\ Count("write") = 0
       /\ sent = "unset"
       /\ file = file0

C16_Witness ==
    /\ pc = "returned"
    /\ ops = <<"fetch", "read">>
    /\ last_seen_id = current_job_id
    /\ last_seen_id = <<2>>
    /\ file0 = <<2>>
    /\ file = <<2>>

(***************************************************************************)
(* Repeated runs against a feed that stays the same                        *)
(***************************************************************************)

\* The stored identifier A and the identifier B of the feed's newest entry.
StoredA == <<1>>
NewestB == <<2>>

\* The setting of repeated runs: both credentials are set, and whenever the
\* fetch yields entries the newest one has identifier B.
LiveEnv ==
    /\ ~MissingCredential(BOT_TOKEN, CHAT_ID)
    /\ current_job_id \in {None, NewestB}

\* The file holds A, stored by an earlier first run.
LiveInit ==
    /\ pc = "idle"
    /\ BOT_TOKEN = None
    /\ CHAT_ID = None
    /\ file = StoredA
    /\ latest_entry = NoEntry
    /\ current_job_id = None
    /\ last_seen_id = None
    /\ sent = "unset"
    /\ ops = <<>>
    /\ how = NoAnswers
    /\ file0 = StoredA
    /\ prev = NoPrev
    /\ storedBy = "first_run"
    /\ notifiedOk = {}
    /\ calc = NoCalc

LiveStartRun == StartRun /\ LiveEnv'

LiveFetch == Fetch /\ LiveEnv'

\* The steps that succeed: the fetch yields the feed, the notification is
\* accepted, the identifier is written.
FetchOk == LiveFetch /\ pc' = "read"

NotifyOk == Notify /\ sent' = "True"

WriteOk == Write /\ how'.write = "ok"

LiveNext ==
    \/ LiveStartRun
    \/ Validate
    \/ LiveFetch
    \/ Read
    \/ Notify
    \/ Write

\* The scheduler keeps starting the program and every run goes on to its end
\* (weak fairness of each step); the fetch, the notification and the write do
\* not fail for ever (strong fairness of their successful outcomes).  Whether
\* the read of the file fails is left open.
LiveSpec ==
    /\ LiveInit
    /\ [][LiveNext]_vars
    /\ WF_vars(LiveStartRun)
    /\ WF_vars(Validate)
    /\ WF_vars(LiveFetch)
    /\ WF_vars(Read)
    /\ WF_vars(Notify)
    /\ WF_vars(Write)
    /\ SF_vars(FetchOk)
    /\ SF_vars(NotifyOk)
    /\ SF_vars(WriteOk)

\* A notification for B has been delivered, the file holds B, and the run
\* under way has attempted no notification.
Delivered ==
    /\ NewestB \in notifiedOk
    /\ file = NewestB
    /\ Count("notify") = 0

\* C17 as stated: with the feed's newest entry staying at B, and the fetch,
\* the notification and the write each succeeding eventually, from some run
\* on a notification for B has been delivered, the file holds B, and no run
\* attempts a notification any more.
C17_Delivery == <>[]Delivered

\* C17, amended: the same, provided no read of the file fails.  (A read that
\* fails makes the run store B without notifying.)
C17_DeliveryWhenRead == [](how.read # "error") => <>[]Delivered

C17_Witness ==
    /\ pc = "returned"
    /\ prev.pc = "returned"
    /\ prev.sent = "True"
    /\ prev.write = "ok"
    /\ file0 = NewestB
    /\ NewestB \in notifiedOk
    /\ current_job_id = NewestB
    /\ ops = <<"fetch", "read">>
    /\ how.read = "ok"

(***************************************************************************)
(* Runs that find a state file the program did not write                   *)
(***************************************************************************)

\* State files holding no identifier: empty, or white space only.
BlankFiles == {<<>>, <<SP, LF>>}

\* As Init, but the file may be absent or blank when the program is first
\* started.
AnyFileInit ==
    /\ pc = "idle"
    /\ BOT_TOKEN = None
    /\ CHAT_ID = None
    /\ file \in {NoFile} \cup BlankFiles
    /\ latest_entry = NoEntry
    /\ current_job_id = None
    /\ last_seen_id = None
    /\ sent = "unset"
    /\ ops = <<>>
    /\ how = NoAnswers
    /\ file0 = file
    /\ prev = NoPrev
    /\ storedBy = "nothing"
    /\ notifiedOk = {}
    /\ calc = NoCalc

AnyFileSpec == AnyFileInit /\ [][Next]_vars

\* The file the run began with exists and holds white space only.
BlankAtStart ==
    /\ file0 # NoFile
    /\ \A i \in 1..Len(file0) : IsSpace(file0[i])

\* C18: a run is about to store the identifier without having attempted a
\* notification only if the file did not exist or the read raised; and a run
\* that read a blank file got the empty string, which differs from the
\* identifier of the newest entry, so it goes on to the notification and, if
\* it returns, has attempted one.
C18_FirstRunOnlyWithoutFile ==
    /\ (pc = "write" /\ sent = "unset")
          => (file0 = NoFile \/ how.read = "error")
    /\ (how.read = "ok" /\ BlankAtStart)
          => /\ last_seen_id = <<>>
             /\ last_seen_id # current_job_id
             /\ pc = "write" => sent = "True"
             /\ pc = "returned" => Count("notify") = 1

C18_Witness ==
    /\ pc = "returned"
    /\ file0 = <<SP, LF>>
    /\ how.read = "ok"
    /\ last_seen_id = <<>>
    /\ ops = <<"fetch", "read", "notify", "write">>
    /\ sent = "True"
    /\ file = current_job_id

C18_WitnessEmpty ==
    /\ pc = "returned"
    /\ file0 = <<>>
    /\ how.read = "ok"
    /\ ops = <<"fetch", "read", "notify">>
    /\ sent = "False"
    /\ file = <<>>

(***************************************************************************)
(* Change detection                                                        *)
(***************************************************************************)

\* A run that returned after comparing attempted a notification exactly when
\* the stored identifier was read and differs from the newest entry's:
\* neither the other entries of the feed nor the identifiers notified before
\* matter.
C19_ComparesLastOnly ==
    (pc = "returned" /\ how.read # "none")
    => (Count("notify") = 1
          <=> (last_seen_id # None /\ last_seen_id # current_job_id))

\* A step delivers a notification for the newest entry only.
C19_NotifiesNewestOnly ==
    notifiedOk' \subseteq (notifiedOk \cup {generate_job_id(latest_entry')})

\* C19: whether a run notifies depends only on the identifier read from the
\* file and on the feed's first entry, and the only entry a run notifies is
\* the first one: further new entries of the feed are never notified, and an
\* identifier notified before is notified again when it differs from the
\* stored one.
C19_ChangeDetection ==
    []C19_ComparesLastOnly /\ [][C19_NotifiesNewestOnly]_vars

\* An identifier notified before is the newest again after another one was
\* stored: a notification is attempted again.
C19_Witness ==
    /\ pc = "returned"
    /\ file0 = <<1>>
    /\ last_seen_id = <<1>>
    /\ current_job_id = <<2>>
    /\ notifiedOk = {<<1>>, <<2>>}
    /\ sent = "False"
    /\ Count("notify") = 1

\* The feed held two new entries; the first was notified and stored, the
\* other was not notified.
C19_WitnessSkipped ==
    /\ pc = "returned"
    /\ how.more
    /\ file0 = <<1>>
    /\ sent = "True"
    /\ notifiedOk = {current_job_id}
    /\ file = current_job_id

\* C20: the identifier of an entry is its link without surrounding
\* whitespace when the entry has a link, and otherwise the digest of the
\* stripped title and the stripped published date; it is never None nor the
\* empty string; and an identifier written by write_last_seen is what
\* read_last_seen returns afterwards.
C20_IdentifierRoundTrip ==
    /\ calc.step \in {"derived", "stored", "loaded"}
       => /\ HasLink(calc.a) => calc.idA = Strip(calc.a.link)
          /\ ~HasLink(calc.a)
                => calc.idA = Md5(Strip(Get(calc.a, "title", <<>>)) \o <<BAR>>
                                    \o Strip(Get([calc.a EXCEPT !.published =
                                                     DateOf(calc.a)],
                                                 "published", <<>>)))
          /\ ~Falsy(calc.idA)
    /\ calc.step = "loaded" => calc.back = calc.idA

====
